---- MODULE Spec2Model ----
(***************************************************************************)
(* Eyelid-state classifier: the single-image preprocessing paths           *)
(* (predict in RealTime-FaceRecognition/eye_status.py, load_image and the  *)
(* training generators in LivelinessNet_Notebook/ll_utils.py), the         *)
(* three-way decision on the classifier's score, and the persistence of a  *)
(* model as two artifacts (model.json, model.h5).                          *)
(*                                                                         *)
(* Sample values are kept exact: a buffer holds integer numerators `data`  *)
(* and one denominator `denom`, the value of a sample being data/denom.    *)
(* A uint8 image has denom 1; every division by 255 multiplies denom by    *)
(* 255.  Probabilities are in thousandths (0..1000).                       *)
(***************************************************************************)
EXTENDS Integers, Sequences, FiniteSets

VARIABLES
  pc,          \* position inside the running operation, or idle/returned/raised
  op,          \* the operation running or last run
  argBuf,      \* predict: the caller's image array (the object the caller holds)
  locBuf,      \* the array object created inside the running operation
  imgRef,      \* which of the two objects the local name img / np_image denotes
  argSnap,     \* the caller's array as it was when predict was called
  argModel,    \* the model argument of predict / save_model
  modelSnap,   \* the model argument as it was when the operation was called
  fed,         \* the tensor given to the classifier, or returned by load_image
  prob,        \* the classifier's score, in thousandths (-1: none)
  label,       \* the value predict returned ("none": nothing returned)
  err,         \* the exception that left the operation ("none": no exception)
  trace,       \* the preprocessing steps performed so far, in order
  file,        \* load_image: the file named by its argument
  fs,          \* the two artifact files model.json and model.h5
  openHandles, \* handles the running operation opened and has not closed
  jsonText,    \* save_model: model_json / load_model: loaded_model_json
  loaded,      \* load_model: loaded_model
  lastSaved    \* the model of the last save_model that returned, while no
               \* write to the artifacts has followed it (else NoModel)

vars == <<pc, op, argBuf, locBuf, imgRef, argSnap, argModel, modelSnap, fed,
          prob, label, err, trace, file, fs, openHandles, jsonText, loaded,
          lastSaved>>

imageVars == <<argBuf, locBuf, imgRef, argSnap, fed, prob, label, trace, file>>
persistVars == <<fs, openHandles, jsonText, loaded, lastSaved>>

----------------------------------------------------------------------------
(* Bounds and program constants *)

IMG_SIZE == 24

\* prediction < 0.1 and prediction > 0.9, in thousandths
ClosedBelow == 100
OpenAbove == 900

\* largest height and width of an input image
MaxDim == 2
\* largest number of layers of a model
MaxLayers == 2

Bases == {0, 255}
Steps == {0, 90}
Channels == {1, 3}
Units == {1, 2}
WeightVals == {0, 1}
Probs == {0, 50, 99, 100, 101, 500, 899, 900, 901, 950, 1000}
ShearShifts == {-4, 0, 4}

Done == {"returned", "raised"}

----------------------------------------------------------------------------
(* Buffers (numpy arrays / PIL images) *)

NoBuf == [shape |-> <<>>, data |-> <<>>, denom |-> 1, dtype |-> "none"]

\* An h x w image of ch channels, uint8 samples in 0..255, row-major with
\* the channels interleaved; a single-channel array is two-dimensional.
MkImage(h, w, ch, base, step) ==
  [shape |-> IF ch = 1 THEN <<h, w>> ELSE <<h, w, ch>>,
   data  |-> [k \in 1..(h * w * ch) |-> (base + step * (k - 1)) % 256],
   denom |-> 1,
   dtype |-> "uint8"]

Images == {MkImage(h, w, ch, b, s) :
             h \in 0..MaxDim, w \in 0..MaxDim, ch \in Channels,
             b \in Bases, s \in Steps}

Height(b) == b.shape[1]
Width(b) == b.shape[2]
NChan(b) == IF Len(b.shape) = 2 THEN 1 ELSE b.shape[3]
IsEmpty(b) == Height(b) = 0 \/ Width(b) = 0

\* sample (y, x, c), all zero-based
Px(b, y, x, c) == b.data[(y * Width(b) + x) * NChan(b) + c + 1]

Clamp(v, lo, hi) == IF v < lo THEN lo ELSE IF v > hi THEN hi ELSE v

\* Centre-aligned source position of output index i when n samples are
\* resized to IMG_SIZE: the two neighbours and the weight of the second,
\* in units of 1/(2*IMG_SIZE).
SrcPos(i, n) ==
  LET d    == 2 * IMG_SIZE
      num  == Clamp((2 * i + 1) * n - IMG_SIZE, 0, (n - 1) * d)
      i0   == num \div d
  IN  [i0 |-> i0, i1 |-> IF i0 + 1 > n - 1 THEN n - 1 ELSE i0 + 1, f |-> num % d]

\* Bilinear interpolation of channel c at output position (i, j).
Bilinear(b, c, i, j) ==
  LET d   == 2 * IMG_SIZE
      a   == SrcPos(i, Height(b))
      e   == SrcPos(j, Width(b))
      top == (d - e.f) * Px(b, a.i0, e.i0, c) + e.f * Px(b, a.i0, e.i1, c)
      bot == (d - e.f) * Px(b, a.i1, e.i0, c) + e.f * Px(b, a.i1, e.i1, c)
  IN  ((d - a.f) * top + a.f * bot + (d * d) \div 2) \div (d * d)

\* Nearest-neighbour source index of output index i.
Nearest(i, n) == Clamp(((2 * i + 1) * n) \div (2 * IMG_SIZE), 0, n - 1)

Cells == 1..(IMG_SIZE * IMG_SIZE)
RowOf(k) == (k - 1) \div IMG_SIZE
ColOf(k) == (k - 1) % IMG_SIZE

\* The content a resize produces from an image with no samples: the
\* library fills the target with zeros when it does not raise.
ZeroFilled(shape, denom, dtype) ==
  [shape |-> shape, data |-> [k \in Cells |-> 0], denom |-> denom, dtype |-> dtype]

----------------------------------------------------------------------------
(* eye_status.py: predict, line by line.  mem is the pair of array objects *)
(* and the object the local name img denotes.                              *)

Deref(mem) == IF mem.ref = "arg" THEN mem.arg ELSE mem.loc

\* Image.fromarray(img, 'RGB'): the array's bytes are copied (tobytes) and
\* read as h*w RGB triples; fewer than 3*h*w bytes is a ValueError.
FromArrayFails(b) == Len(b.shape) > 3 \/ Len(b.data) < 3 * Height(b) * Width(b)

FromArrayRGB(b) ==
  [shape |-> <<Height(b), Width(b), 3>>,
   data  |-> [k \in 1..(3 * Height(b) * Width(b)) |-> b.data[k]],
   denom |-> b.denom,
   dtype |-> "uint8"]

\* .convert('L'): ITU-R 601-2 luma, L = (19595 R + 38470 G + 7471 B + 2^15) >> 16
ConvertL(b) ==
  [shape |-> <<Height(b), Width(b)>>,
   data  |-> [k \in 1..(Height(b) * Width(b)) |->
                (19595 * b.data[3 * k - 2] + 38470 * b.data[3 * k - 1]
                 + 7471 * b.data[3 * k] + 32768) \div 65536],
   denom |-> b.denom,
   dtype |-> "uint8"]

\* imresize(img, (IMG_SIZE, IMG_SIZE)): bilinear, uint8 in and uint8 out
\* (bytescale leaves uint8 data as it is).
Imresize(b) ==
  [shape |-> <<IMG_SIZE, IMG_SIZE>>,
   data  |-> [k \in Cells |-> Bilinear(b, 0, RowOf(k), ColOf(k))],
   denom |-> b.denom,
   dtype |-> "uint8"]

AsFloat32(b) == [b EXCEPT !.dtype = "float32"]

\* x / 255
Div255(b) == [b EXCEPT !.denom = @ * 255]

\* line 22: img = Image.fromarray(img, 'RGB').convert('L')
Line22(mem) == [arg |-> mem.arg, loc |-> ConvertL(FromArrayRGB(Deref(mem))), ref |-> "loc"]

\* line 23 with a resize that hands back floats in [0,1], as
\* skimage.transform.resize does for uint8 input
Line23Unit(mem) ==
  [arg |-> mem.arg,
   loc |-> IF IsEmpty(Deref(mem))
           THEN ZeroFilled(<<IMG_SIZE, IMG_SIZE>>, Deref(mem).denom * 255, "float32")
           ELSE Div255(AsFloat32(Imresize(Deref(mem)))),
   ref |-> "loc"]

\* line 23: img = imresize(img, (IMG_SIZE,IMG_SIZE)).astype('float32')
Line23(mem) ==
  [arg |-> mem.arg,
   loc |-> IF IsEmpty(Deref(mem))
           THEN ZeroFilled(<<IMG_SIZE, IMG_SIZE>>, Deref(mem).denom, "float32")
           ELSE AsFloat32(Imresize(Deref(mem))),
   ref |-> "loc"]

\* line 24 with the in-place division acting on the caller's array
Line24OnArgument(mem) == [mem EXCEPT !.arg = Div255(@)]

\* line 24: img /= 255, in place on the object img denotes
Line24(mem) ==
  IF mem.ref = "arg" THEN [mem EXCEPT !.arg = Div255(@)]
                     ELSE [mem EXCEPT !.loc = Div255(@)]

\* line 25: img = img.reshape(1,IMG_SIZE,IMG_SIZE,1), a view of the same data
ReshapeFails(b) == Len(b.data) # IMG_SIZE * IMG_SIZE

Line25(mem) ==
  [arg |-> mem.arg,
   loc |-> [Deref(mem) EXCEPT !.shape = <<1, IMG_SIZE, IMG_SIZE, 1>>],
   ref |-> "loc"]

\* the decision with the two boundary scores taken into the outer bands
DecideInclusive(p) == IF p <= ClosedBelow THEN "closed"
                      ELSE IF p >= OpenAbove THEN "open"
                      ELSE "idk"

\* lines 27-32: the decision on the classifier's score
Decide(p) == IF p < ClosedBelow THEN "closed"
             ELSE IF p > OpenAbove THEN "open"
             ELSE "idk"

\* a predict that catches the exception and answers 'idk'
SwallowAsIdk(e) == [pc |-> "returned", err |-> "none", label |-> "idk"]

\* predict has no try/except: an exception raised by a step leaves predict
\* at once, and predict returns nothing.
Propagate(e) == [pc |-> "raised", err |-> e, label |-> "none"]

Mem == [arg |-> argBuf, loc |-> locBuf, ref |-> imgRef]

SetMem(m) == /\ argBuf' = m.arg
             /\ locBuf' = m.loc
             /\ imgRef' = m.ref

Leave(r) == /\ pc' = r.pc
            /\ err' = r.err
            /\ label' = r.label

\* The models a caller can hold: a structure (units per layer) and one
\* weight vector per layer.
WeightsOf(s) == {w \in [1..Len(s) -> UNION {[1..u -> WeightVals] : u \in Units}] :
                   \A i \in 1..Len(s) : Len(w[i]) = s[i]}
Structures == UNION {[1..n -> Units] : n \in 1..MaxLayers}
PatternWeights(s, v) == [i \in 1..Len(s) |-> [j \in 1..s[i] |-> (v + i + j) % 2]]
Models == {[structure |-> s, weights |-> PatternWeights(s, v)] :
             s \in Structures, v \in WeightVals}
NoModel == [structure |-> <<>>, weights |-> <<>>]
PredictModels == {m \in Models : m.structure = <<1>>}

\* predict(img, model) is called
CallPredict(img, model) ==
  /\ pc = "idle"
  /\ pc' = "p22"
  /\ op' = "predict"
  /\ argBuf' = img
  /\ argSnap' = img
  /\ locBuf' = NoBuf
  /\ imgRef' = "arg"
  /\ argModel' = model
  /\ modelSnap' = model
  /\ fed' = NoBuf
  /\ prob' = -1
  /\ label' = "none"
  /\ err' = "none"
  /\ trace' = <<>>
  /\ UNCHANGED <<file, persistVars>>

P22 ==
  /\ pc = "p22"
  /\ \E raises \in BOOLEAN :
       IF FromArrayFails(Deref(Mem)) \/ (IsEmpty(Deref(Mem)) /\ raises)
       THEN /\ Leave(Propagate("ValueError"))
            /\ UNCHANGED <<argBuf, locBuf, imgRef, trace>>
       ELSE /\ SetMem(Line22(Mem))
            /\ trace' = Append(trace, "gray")
            /\ pc' = "p23"
            /\ UNCHANGED <<err, label>>
  /\ UNCHANGED <<op, argSnap, argModel, modelSnap, fed, prob, file, persistVars>>

P23 ==
  /\ pc = "p23"
  /\ \E raises \in BOOLEAN :
       IF IsEmpty(Deref(Mem)) /\ raises
       THEN /\ Leave(Propagate("ValueError"))
            /\ UNCHANGED <<argBuf, locBuf, imgRef, trace>>
       ELSE /\ SetMem(Line23(Mem))
            /\ trace' = Append(trace, "resize")
            /\ pc' = "p24"
            /\ UNCHANGED <<err, label>>
  /\ UNCHANGED <<op, argSnap, argModel, modelSnap, fed, prob, file, persistVars>>

P24 ==
  /\ pc = "p24"
  /\ IF Deref(Mem).dtype # "float32"
     THEN /\ Leave(Propagate("TypeError"))
          /\ UNCHANGED <<argBuf, locBuf, imgRef, trace>>
     ELSE /\ SetMem(Line24(Mem))
          /\ trace' = Append(trace, "div255")
          /\ pc' = "p25"
          /\ UNCHANGED <<err, label>>
  /\ UNCHANGED <<op, argSnap, argModel, modelSnap, fed, prob, file, persistVars>>

P25 ==
  /\ pc = "p25"
  /\ IF ReshapeFails(Deref(Mem))
     THEN /\ Leave(Propagate("ValueError"))
          /\ UNCHANGED <<argBuf, locBuf, imgRef, trace>>
     ELSE /\ SetMem(Line25(Mem))
          /\ trace' = Append(trace, "reshape")
          /\ pc' = "p26"
          /\ UNCHANGED <<err, label>>
  /\ UNCHANGED <<op, argSnap, argModel, modelSnap, fed, prob, file, persistVars>>

\* line 26: prediction = model.predict(img); the classifier is an opaque
\* function of the tensor, and the call may raise
P26 ==
  /\ pc = "p26"
  /\ fed' = Deref(Mem)
  /\ \/ /\ Leave(Propagate("ClassifierError"))
        /\ UNCHANGED <<prob, trace>>
     \/ /\ \E p \in Probs : prob' = p
        /\ trace' = Append(trace, "classify")
        /\ pc' = "p27"
        /\ UNCHANGED <<err, label>>
  /\ UNCHANGED <<op, argBuf, locBuf, imgRef, argSnap, argModel, modelSnap, file,
                 persistVars>>

\* lines 27-33
P27 ==
  /\ pc = "p27"
  /\ label' = Decide(prob)
  /\ pc' = "returned"
  /\ UNCHANGED <<op, argBuf, locBuf, imgRef, argSnap, argModel, modelSnap, fed,
                 prob, err, trace, file, persistVars>>

----------------------------------------------------------------------------
(* ll_utils.py: load_image, line by line *)

Files == {[kind |-> "image", img |-> i] : i \in Images}
           \cup {[kind |-> "garbage", img |-> NoBuf], [kind |-> "missing", img |-> NoBuf]}
NoFile == [kind |-> "none", img |-> NoBuf]

\* an Image.open that answers a blank pixel for bytes it cannot decode
ImageOpenBlank(f) ==
  IF f.kind = "missing" THEN [err |-> "FileNotFoundError", img |-> NoBuf]
  ELSE IF f.kind = "garbage"
  THEN [err |-> "none",
        img |-> [shape |-> <<1, 1>>, data |-> <<0>>, denom |-> 1, dtype |-> "uint8"]]
  ELSE [err |-> "none", img |-> f.img]

\* line 12: Image.open(filename); raises on a missing or unreadable file
ImageOpen(f) ==
  IF f.kind = "missing" THEN [err |-> "FileNotFoundError", img |-> NoBuf]
  ELSE IF f.kind = "garbage" THEN [err |-> "UnidentifiedImageError", img |-> NoBuf]
  ELSE [err |-> "none", img |-> f.img]

\* line 13: np.array(np_image).astype('float32')/255
ToFloatDiv255(b) == Div255(AsFloat32(b))

\* line 14: transform.resize(np_image, (IMG_SIZE, IMG_SIZE, 1)): a float
\* image keeps its range; a two-dimensional array gets a channel axis, and an
\* array with channels is interpolated along the channel axis too, whose one
\* output sample sits at the centre channel.
CentreChannel(b) == (NChan(b) - 1) \div 2

SkResize(b) ==
  IF IsEmpty(b)
  THEN ZeroFilled(<<IMG_SIZE, IMG_SIZE, 1>>, b.denom, b.dtype)
  ELSE [shape |-> <<IMG_SIZE, IMG_SIZE, 1>>,
        data  |-> [k \in Cells |-> Bilinear(b, CentreChannel(b), RowOf(k), ColOf(k))],
        denom |-> b.denom,
        dtype |-> b.dtype]

\* expand_dims on the last axis instead of the first
ExpandDimsLast(b) == [b EXCEPT !.shape = @ \o <<1>>]

\* line 15: np.expand_dims(np_image, axis=0)
ExpandDims(b) == [b EXCEPT !.shape = <<1>> \o @]

CallLoadImage(f) ==
  /\ pc = "idle"
  /\ pc' = "i12"
  /\ op' = "load_image"
  /\ file' = f
  /\ argBuf' = NoBuf
  /\ argSnap' = NoBuf
  /\ locBuf' = NoBuf
  /\ imgRef' = "loc"
  /\ fed' = NoBuf
  /\ prob' = -1
  /\ label' = "none"
  /\ err' = "none"
  /\ trace' = <<>>
  /\ UNCHANGED <<argModel, modelSnap, persistVars>>

I12 ==
  /\ pc = "i12"
  /\ LET r == ImageOpen(file) IN
       IF r.err # "none"
       THEN /\ pc' = "raised"
            /\ err' = r.err
            /\ UNCHANGED locBuf
       ELSE /\ pc' = "i13"
            /\ locBuf' = r.img
            /\ UNCHANGED err
  /\ UNCHANGED <<op, argBuf, imgRef, argSnap, argModel, modelSnap, fed, prob,
                 label, trace, file, persistVars>>

I13 ==
  /\ pc = "i13"
  /\ \E raises \in BOOLEAN :
       IF IsEmpty(locBuf) /\ raises
       THEN /\ pc' = "raised"
            /\ err' = "ValueError"
            /\ UNCHANGED <<locBuf, trace>>
       ELSE /\ pc' = "i14"
            /\ locBuf' = ToFloatDiv255(locBuf)
            /\ trace' = Append(trace, "div255")
            /\ UNCHANGED err
  /\ UNCHANGED <<op, argBuf, imgRef, argSnap, argModel, modelSnap, fed, prob,
                 label, file, persistVars>>

I14 ==
  /\ pc = "i14"
  /\ \E raises \in BOOLEAN :
       IF IsEmpty(locBuf) /\ raises
       THEN /\ pc' = "raised"
            /\ err' = "ValueError"
            /\ UNCHANGED <<locBuf, trace>>
       ELSE /\ pc' = "i15"
            /\ locBuf' = SkResize(locBuf)
            /\ trace' = Append(trace, "resize")
            /\ UNCHANGED err
  /\ UNCHANGED <<op, argBuf, imgRef, argSnap, argModel, modelSnap, fed, prob,
                 label, file, persistVars>>

\* lines 15-16
I15 ==
  /\ pc = "i15"
  /\ pc' = "returned"
  /\ locBuf' = ExpandDims(locBuf)
  /\ fed' = ExpandDims(locBuf)
  /\ trace' = Append(trace, "reshape")
  /\ UNCHANGED <<op, argBuf, imgRef, argSnap, argModel, modelSnap, prob, label,
                 err, file, persistVars>>

----------------------------------------------------------------------------
(* ll_utils.py: load_data and the samples its two generators yield *)

\* lines 19-23 and 24-27: ImageDataGenerator(rescale=1./255, shear_range=0.2,
\* horizontal_flip=True); rescale counts the divisions by 255 it stands for
TrainDatagen == [rescale |-> 1, shear |-> TRUE, flip |-> TRUE]
ValDatagen == [rescale |-> 1, shear |-> TRUE, flip |-> TRUE]

\* lines 28-36 and 37-45: flow_from_directory(target_size=(IMG_SIZE, IMG_SIZE),
\* color_mode="grayscale"): each file is decoded, converted to luminance and
\* resized (nearest neighbour) to a float array of samples in 0..255
LoadImg(b) ==
  LET g == IF NChan(b) = 1 THEN b ELSE ConvertL(b)
  IN  [shape |-> <<IMG_SIZE, IMG_SIZE, 1>>,
       data  |-> [k \in Cells |->
                    Px(g, Nearest(RowOf(k), Height(g)), Nearest(ColOf(k), Width(g)), 0)],
       denom |-> b.denom,
       dtype |-> "float32"]

\* the random transform: a horizontal shear by shift s (rows move sideways in
\* proportion to their distance from the centre row, edge samples repeated)
\* and a horizontal flip
Augment(b, s, flip) ==
  [b EXCEPT !.data =
     [k \in Cells |->
        LET y  == RowOf(k)
            x0 == IF flip THEN IMG_SIZE - 1 - ColOf(k) ELSE ColOf(k)
            x  == Clamp(x0 + (s * (y - IMG_SIZE \div 2)) \div IMG_SIZE, 0, IMG_SIZE - 1)
        IN  b.data[y * IMG_SIZE + x + 1]]]

RECURSIVE Rescale(_, _)
Rescale(b, n) == IF n = 0 THEN b ELSE Rescale(Div255(b), n - 1)

\* one sample of a batch: decode and resize, random transform, rescale
Sample(gen, b, s, flip) ==
  Rescale(Augment(LoadImg(b), IF gen.shear THEN s ELSE 0, gen.flip /\ flip), gen.rescale)

\* load_data(): both generators are built; lines 18-46
LoadData ==
  /\ pc = "idle"
  /\ pc' = "generating"
  /\ op' = "load_data"
  /\ file' = NoFile
  /\ argBuf' = NoBuf
  /\ argSnap' = NoBuf
  /\ locBuf' = NoBuf
  /\ imgRef' = "loc"
  /\ fed' = NoBuf
  /\ prob' = -1
  /\ label' = "none"
  /\ err' = "none"
  /\ trace' = <<>>
  /\ UNCHANGED <<argModel, modelSnap, persistVars>>

\* a generator yields its next sample to the classifier's fit
GeneratorNext(which, f, s, flip) ==
  /\ pc = "generating"
  /\ f.kind = "image"
  /\ ~IsEmpty(f.img)
  /\ pc' = "yielded"
  /\ file' = f
  /\ fed' = Sample(IF which = "train" THEN TrainDatagen ELSE ValDatagen, f.img, s, flip)
  /\ trace' = <<which>>
  /\ UNCHANGED <<op, argBuf, locBuf, imgRef, argSnap, argModel, modelSnap,
                 prob, label, err, persistVars>>

\* fit has consumed the sample and asks for the next, or stops
GeneratorResume ==
  /\ pc = "yielded"
  /\ \E more \in BOOLEAN : pc' = IF more THEN "generating" ELSE "returned"
  /\ file' = NoFile
  /\ fed' = NoBuf
  /\ trace' = <<>>
  /\ UNCHANGED <<op, argBuf, locBuf, imgRef, argSnap, argModel, modelSnap,
                 prob, label, err, persistVars>>

----------------------------------------------------------------------------
(* The two artifacts.  A file is a sequence of numbers; text is FALSE when *)
(* its bytes do not decode as text.                                        *)

NoArtifact == [exists |-> FALSE, bytes |-> <<>>, text |-> TRUE]
FileOf(bytes) == [exists |-> TRUE, bytes |-> bytes, text |-> TRUE]

IsProperPrefix(a, b) == Len(a) < Len(b) /\ a = SubSeq(b, 1, Len(a))

RECURSIVE Reverse(_)
Reverse(q) == IF q = <<>> THEN <<>> ELSE Reverse(Tail(q)) \o <<Head(q)>>

\* a to_json that writes the layers last to first
ToJsonReversed(s) == <<Len(s)>> \o Reverse(s) \o <<0>>

\* model.to_json(): the layer list, its length first and a closing mark last
ToJson(s) == <<Len(s)>> \o s \o <<0>>

\* model_from_json(text): a document that does not close is a ValueError
JsonValid(j) ==
  /\ Len(j) >= 2
  /\ j[1] = Len(j) - 2
  /\ j[Len(j)] = 0
  /\ \A i \in 2..(Len(j) - 1) : j[i] >= 1

FromJson(j) == SubSeq(j, 2, Len(j) - 1)

\* model.save_weights("model.h5"): the end-of-file address, the number of
\* layers, then each layer's length and values
RECURSIVE EncodeLayers(_)
EncodeLayers(w) ==
  IF w = <<>> THEN <<>> ELSE <<Len(Head(w))>> \o Head(w) \o EncodeLayers(Tail(w))

SaveWeightsBytes(w) ==
  LET body == <<Len(w)>> \o EncodeLayers(w) IN <<Len(body)>> \o body

H5Valid(b) == Len(b) >= 2 /\ b[1] = Len(b) - 1

RECURSIVE DecodeLayers(_, _)
DecodeLayers(b, n) ==
  IF n = 0 THEN <<>>
  ELSE <<SubSeq(b, 2, b[1] + 1)>> \o DecodeLayers(SubSeq(b, b[1] + 2, Len(b)), n - 1)

ReadWeights(b) == DecodeLayers(SubSeq(b, 3, Len(b)), b[2])

ShapesMatch(s, w) == Len(w) = Len(s) /\ \A i \in 1..Len(s) : Len(w[i]) = s[i]

\* a load_weights that assigns whatever the file holds, shapes unchecked
LoadWeightsNoCheck(model, h5) ==
  IF ~h5.exists \/ ~H5Valid(h5.bytes) THEN [err |-> "OSError", model |-> model]
  ELSE [err |-> "none", model |-> [model EXCEPT !.weights = ReadWeights(h5.bytes)]]

\* line 17: loaded_model.load_weights("model.h5")
LoadWeights(model, h5) ==
  IF ~h5.exists \/ ~H5Valid(h5.bytes) THEN [err |-> "OSError", model |-> model]
  ELSE IF ~ShapesMatch(model.structure, ReadWeights(h5.bytes))
  THEN [err |-> "ValueError", model |-> model]
  ELSE [err |-> "none", model |-> [model EXCEPT !.weights = ReadWeights(h5.bytes)]]

opVarsReset ==
  /\ argBuf' = NoBuf
  /\ locBuf' = NoBuf
  /\ imgRef' = "loc"
  /\ argSnap' = NoBuf
  /\ fed' = NoBuf
  /\ prob' = -1
  /\ label' = "none"
  /\ err' = "none"
  /\ trace' = <<>>
  /\ file' = NoFile
  /\ openHandles' = {}
  /\ loaded' = NoModel

(* ll_utils.py: save_model *)

CallSaveModel(m) ==
  /\ pc = "idle"
  /\ pc' = "s49"
  /\ op' = "save_model"
  /\ argModel' = m
  /\ modelSnap' = m
  /\ jsonText' = <<>>
  /\ opVarsReset
  /\ UNCHANGED <<fs, lastSaved>>

\* line 49: model_json = model.to_json()
S49 ==
  /\ pc = "s49"
  /\ pc' = "s50"
  /\ jsonText' = ToJson(argModel.structure)
  /\ UNCHANGED <<op, argModel, modelSnap, err, imageVars, fs, openHandles, loaded,
                 lastSaved>>

\* line 50: with open("model.json", "w") as json_file: the file is emptied
S50 ==
  /\ pc = "s50"
  /\ \E ok \in BOOLEAN :
       IF ok
       THEN /\ pc' = "s51"
            /\ fs' = [fs EXCEPT !.json = FileOf(<<>>)]
            /\ openHandles' = openHandles \cup {"model.json"}
            /\ lastSaved' = NoModel
            /\ UNCHANGED err
       ELSE /\ pc' = "raised"
            /\ err' = "PermissionError"
            /\ UNCHANGED <<fs, openHandles, lastSaved>>
  /\ UNCHANGED <<op, argModel, modelSnap, argBuf, locBuf, imgRef, argSnap, fed,
                 prob, label, trace, file, jsonText, loaded>>

\* line 51: json_file.write(model_json), and the end of the with block, which
\* closes the file whether or not the write raised
S51 ==
  /\ pc = "s51"
  /\ openHandles' = openHandles \ {"model.json"}
  /\ \E ok \in BOOLEAN :
       IF ok
       THEN /\ pc' = "s52"
            /\ fs' = [fs EXCEPT !.json = FileOf(jsonText)]
            /\ UNCHANGED err
       ELSE /\ pc' = "raised"
            /\ err' = "OSError"
            /\ UNCHANGED fs
  /\ UNCHANGED <<op, argModel, modelSnap, argBuf, locBuf, imgRef, argSnap, fed,
                 prob, label, trace, file, jsonText, loaded, lastSaved>>

\* line 52: model.save_weights("model.h5"); it may fail before the file is
\* touched, or after it was emptied
S52 ==
  /\ pc = "s52"
  /\ \E outcome \in {"ok", "open_fails", "write_fails"} :
       IF outcome = "ok"
       THEN /\ pc' = "returned"
            /\ fs' = [fs EXCEPT !.h5 = FileOf(SaveWeightsBytes(argModel.weights))]
            /\ lastSaved' = argModel
            /\ UNCHANGED err
       ELSE /\ pc' = "raised"
            /\ err' = "OSError"
            /\ fs' = IF outcome = "open_fails" THEN fs
                     ELSE [fs EXCEPT !.h5 = FileOf(<<>>)]
            /\ UNCHANGED lastSaved
  /\ UNCHANGED <<op, argModel, modelSnap, argBuf, locBuf, imgRef, argSnap, fed,
                 prob, label, trace, file, jsonText, loaded, openHandles>>

(* eye_status.py: load_model *)

CallLoadModel ==
  /\ pc = "idle"
  /\ pc' = "l12"
  /\ op' = "load_model"
  /\ argModel' = NoModel
  /\ modelSnap' = NoModel
  /\ jsonText' = <<>>
  /\ opVarsReset
  /\ UNCHANGED <<fs, lastSaved>>

\* line 12: json_file = open('model.json', 'r')
L12 ==
  /\ pc = "l12"
  /\ IF fs.json.exists
     THEN /\ pc' = "l13"
          /\ openHandles' = openHandles \cup {"model.json"}
          /\ UNCHANGED err
     ELSE /\ pc' = "raised"
          /\ err' = "FileNotFoundError"
          /\ UNCHANGED openHandles
  /\ UNCHANGED <<op, argModel, modelSnap, imageVars, fs, jsonText, loaded, lastSaved>>

\* line 13: loaded_model_json = json_file.read()
L13 ==
  /\ pc = "l13"
  /\ IF fs.json.text
     THEN /\ pc' = "l14"
          /\ jsonText' = fs.json.bytes
          /\ UNCHANGED err
     ELSE /\ pc' = "raised"
          /\ err' = "UnicodeDecodeError"
          /\ UNCHANGED jsonText
  /\ UNCHANGED <<op, argModel, modelSnap, imageVars, fs, openHandles, loaded,
                 lastSaved>>

\* line 14: json_file.close()
L14 ==
  /\ pc = "l14"
  /\ pc' = "l15"
  /\ openHandles' = openHandles \ {"model.json"}
  /\ UNCHANGED <<op, argModel, modelSnap, err, imageVars, fs, jsonText, loaded,
                 lastSaved>>

\* line 15: loaded_model = model_from_json(loaded_model_json); the new
\* model's weights are freshly initialised
L15 ==
  /\ pc = "l15"
  /\ IF JsonValid(jsonText)
     THEN /\ pc' = "l17"
          /\ \E w0 \in WeightsOf(FromJson(jsonText)) :
               loaded' = [structure |-> FromJson(jsonText), weights |-> w0]
          /\ UNCHANGED err
     ELSE /\ pc' = "raised"
          /\ err' = "ValueError"
          /\ UNCHANGED loaded
  /\ UNCHANGED <<op, argModel, modelSnap, imageVars, fs, openHandles, jsonText,
                 lastSaved>>

L17 ==
  /\ pc = "l17"
  /\ LET r == LoadWeights(loaded, fs.h5) IN
       /\ loaded' = r.model
       /\ err' = r.err
       /\ pc' = IF r.err = "none" THEN "l18" ELSE "raised"
  /\ UNCHANGED <<op, argModel, modelSnap, imageVars, fs, openHandles, jsonText,
                 lastSaved>>

\* lines 18-19: compile (loss, optimizer and metrics only) and return
L18 ==
  /\ pc = "l18"
  /\ pc' = "returned"
  /\ UNCHANGED <<op, argModel, modelSnap, err, imageVars, persistVars>>

(* What can happen to the artifacts between two operations: one of them is *)
(* deleted, cut short, or (model.json) overwritten with bytes that are not *)
(* text.  One fault at a time: a fault follows a save_model that returned. *)

DeleteArtifact(name) ==
  /\ pc = "idle"
  /\ lastSaved # NoModel
  /\ fs[name].exists
  /\ fs' = [fs EXCEPT ![name] = NoArtifact]
  /\ lastSaved' = NoModel
  /\ UNCHANGED <<pc, op, argModel, modelSnap, err, imageVars, openHandles, jsonText,
                 loaded>>

TruncateArtifact(name, n) ==
  /\ pc = "idle"
  /\ lastSaved # NoModel
  /\ fs[name].exists
  /\ n < Len(fs[name].bytes)
  /\ fs' = [fs EXCEPT ![name].bytes = SubSeq(@, 1, n)]
  /\ lastSaved' = NoModel
  /\ UNCHANGED <<pc, op, argModel, modelSnap, err, imageVars, openHandles, jsonText,
                 loaded>>

GarbleJson ==
  /\ pc = "idle"
  /\ lastSaved # NoModel
  /\ fs.json.exists
  /\ fs' = [fs EXCEPT !.json = [exists |-> TRUE, bytes |-> <<>>, text |-> FALSE]]
  /\ lastSaved' = NoModel
  /\ UNCHANGED <<pc, op, argModel, modelSnap, err, imageVars, openHandles, jsonText,
                 loaded>>

----------------------------------------------------------------------------

Init ==
  /\ pc = "idle"
  /\ op = "none"
  /\ argBuf = NoBuf
  /\ locBuf = NoBuf
  /\ imgRef = "loc"
  /\ argSnap = NoBuf
  /\ argModel = NoModel
  /\ modelSnap = NoModel
  /\ fed = NoBuf
  /\ prob = -1
  /\ label = "none"
  /\ err = "none"
  /\ trace = <<>>
  /\ file = NoFile
  /\ fs = [json |-> NoArtifact, h5 |-> NoArtifact]
  /\ openHandles = {}
  /\ jsonText = <<>>
  /\ loaded = NoModel
  /\ lastSaved = NoModel

\* the caller has consumed the result or the exception of the last operation
Forget ==
  /\ pc \in Done
  /\ pc' = "idle"
  /\ op' = "none"
  /\ argBuf' = NoBuf
  /\ locBuf' = NoBuf
  /\ imgRef' = "loc"
  /\ argSnap' = NoBuf
  /\ argModel' = NoModel
  /\ modelSnap' = NoModel
  /\ fed' = NoBuf
  /\ prob' = -1
  /\ label' = "none"
  /\ err' = "none"
  /\ trace' = <<>>
  /\ file' = NoFile
  /\ openHandles' = {}
  /\ jsonText' = <<>>
  /\ loaded' = NoModel
  /\ UNCHANGED <<fs, lastSaved>>

Next ==
  \/ \E img \in Images, m \in PredictModels : CallPredict(img, m)
  \/ P22
  \/ P23
  \/ P24
  \/ P25
  \/ P26
  \/ P27
  \/ \E f \in Files : CallLoadImage(f)
  \/ I12
  \/ I13
  \/ I14
  \/ I15
  \/ LoadData
  \/ \E which \in {"train", "val"}, f \in Files, s \in ShearShifts, flip \in BOOLEAN :
       GeneratorNext(which, f, s, flip)
  \/ GeneratorResume
  \/ Forget

Spec == Init /\ [][Next]_vars

MaxBytes == 1 + 1 + MaxLayers * (1 + Cardinality(Units))

PersistNext ==
  \/ \E m \in Models : CallSaveModel(m)
  \/ S49
  \/ S50
  \/ S51
  \/ S52
  \/ CallLoadModel
  \/ L12
  \/ L13
  \/ L14
  \/ L15
  \/ L17
  \/ L18
  \/ \E name \in {"json", "h5"} : DeleteArtifact(name)
  \/ \E name \in {"json", "h5"}, n \in 0..MaxBytes : TruncateArtifact(name, n)
  \/ GarbleJson
  \/ Forget

PersistSpec == Init /\ [][PersistNext]_vars

----------------------------------------------------------------------------
(* Properties *)

Labels == {"open", "closed", "idk"}

\* C1: for every score p, predict returns 'closed' iff p < 0.1, 'open' iff
\* p > 0.9 and 'idk' otherwise (0.1 and 0.9 included); exactly one label.
C1_DecisionBands ==
  (op = "predict" /\ pc = "returned") =>
    /\ label \in Labels
    /\ (label = "closed") <=> (prob < 100)
    /\ (label = "open") <=> (prob > 900)
    /\ (label = "idk") <=> (100 <= prob /\ prob <= 900)

C1_Witness ==
  op = "predict" /\ pc = "returned" /\ prob = 100 /\ label = "idk"

\* a tensor of shape [1,24,24,1] whose values all lie in [0,1]
TensorOK(t) ==
  /\ t.shape = <<1, 24, 24, 1>>
  /\ Len(t.data) = 576
  /\ \A k \in 1..Len(t.data) : 0 <= t.data[k] /\ t.data[k] <= t.denom

ValidImage(b) ==
  /\ Len(b.shape) \in {2, 3}
  /\ Height(b) > 0
  /\ Width(b) > 0
  /\ NChan(b) \in {1, 3}

RECURSIVE Divisions(_)
Divisions(t) ==
  IF t = <<>> THEN 0 ELSE (IF Head(t) = "div255" THEN 1 ELSE 0) + Divisions(Tail(t))

\* C4: on every path to the classifier (predict, load_image, the two
\* generators of load_data) the decoded 0..255 samples are divided by 255
\* exactly once.
C4_DividedOnce ==
  /\ (op = "predict" /\ fed # NoBuf) => (fed.denom = 255 /\ Divisions(trace) = 1)
  /\ (op = "load_image" /\ pc = "returned") => (fed.denom = 255 /\ Divisions(trace) = 1)
  /\ (op = "load_data" /\ pc = "yielded") => fed.denom = 255

C4_Witness ==
  /\ op = "load_data"
  /\ pc = "yielded"
  /\ trace = <<"val">>
  /\ \E k \in 1..Len(fed.data) : fed.data[k] = 255

\* C5: predict and load_image each perform grayscale conversion, resize,
\* division by 255 and reshape, in that order.
C5_FourStepsInOrder ==
  (op \in {"predict", "load_image"} /\ fed # NoBuf) =>
    /\ Len(trace) >= 4
    /\ SubSeq(trace, 1, 4) = <<"gray", "resize", "div255", "reshape">>

AllSteps == <<"gray", "resize", "div255", "reshape", "classify">>

\* C7: predict returns a label only when every preprocessing step and the
\* classifier call succeeded; a failing step's exception reaches the caller
\* and no label is returned.
C7_FailurePropagates ==
  op = "predict" =>
    /\ (label # "none") => (trace = AllSteps /\ err = "none" /\ pc = "returned")
    /\ (pc \in Done /\ trace # AllSteps) =>
         (pc = "raised" /\ err # "none" /\ label = "none")

C7_Witness ==
  /\ op = "predict"
  /\ pc = "raised"
  /\ trace = <<"gray", "resize", "div255", "reshape">>
  /\ err = "ClassifierError"
  /\ label = "none"

\* an array predict cannot read as RGB: fewer than 3*h*w bytes
Unparseable(b) == Len(b.data) < 3 * Height(b) * Width(b)

ZeroSized(b) == b # NoBuf /\ IsEmpty(b)

C9_ArgumentsUntouched ==
  op = "predict" => (argBuf = argSnap /\ argModel = modelSnap)

C9_Witness ==
  /\ op = "predict"
  /\ pc = "returned"
  /\ locBuf.denom = 255
  /\ argBuf.denom = 1
  /\ argBuf.dtype = "uint8"

\* the model load_model has returned
Returned == op = "load_model" /\ pc = "returned"

\* C3: save_model(m) followed by load_model(), with no other write to the two
\* artifacts in between, returns a model with m's structure and weights.
C3_RoundTrip ==
  (op = "load_model" /\ pc \in Done /\ lastSaved # NoModel) =>
    /\ pc = "returned"
    /\ loaded.structure = lastSaved.structure
    /\ loaded.weights = lastSaved.weights

C3_Witness ==
  /\ Returned
  /\ lastSaved # NoModel
  /\ loaded.structure = <<1, 2>>
  /\ loaded.weights = <<<<1>>, <<0, 1>>>>

JsonTruncated == fs.json.exists /\ \E s \in Structures : IsProperPrefix(fs.json.bytes, ToJson(s))

H5Truncated ==
  fs.h5.exists /\ \E m \in Models : IsProperPrefix(fs.h5.bytes, SaveWeightsBytes(m.weights))

\* both artifacts are complete, of two models whose shapes differ
Mismatched ==
  \E m1, m2 \in Models :
    /\ fs.json = FileOf(ToJson(m1.structure))
    /\ fs.h5 = FileOf(SaveWeightsBytes(m2.weights))
    /\ m1.structure # m2.structure

ArtifactsBad ==
  \/ ~fs.json.exists
  \/ ~fs.h5.exists
  \/ JsonTruncated
  \/ H5Truncated
  \/ Mismatched

\* C6 as stated: load_model fails with CorruptArtifactError and returns no
\* model when an artifact is missing or truncated or the shapes mismatch.
C6_CorruptArtifactError ==
  (op = "load_model" /\ pc \in Done /\ ArtifactsBad) =>
    (pc = "raised" /\ err = "CorruptArtifactError")

\* C6 amended: in those cases load_model is left by the exception of the
\* call that met the fault (FileNotFoundError, UnicodeDecodeError, ValueError
\* or OSError) and returns no model.
C6_LibraryErrorOnBadArtifact ==
  (op = "load_model" /\ pc \in Done /\ ArtifactsBad) =>
    /\ pc = "raised"
    /\ err \in {"FileNotFoundError", "UnicodeDecodeError", "ValueError", "OSError"}

C6_Witness ==
  op = "load_model" /\ pc = "raised" /\ Mismatched /\ err = "ValueError"

\* C10: no file handle opened by save_model or load_model is still open once
\* the operation has returned or raised.
C10_HandlesClosed ==
  (op \in {"save_model", "load_model"} /\ pc \in Done) => openHandles = {}

====
